---- MODULE Spec2Model ----
(***************************************************************************)
(* State-machine model of openmemory/api/repro_bug.py: a linear script     *)
(* that builds an in-memory database, inserts fixture rows, queries them   *)
(* without and with eager loading of relationships, closes the session and *)
(* serializes the detached instances.                                      *)
(*                                                                         *)
(* The environment is nondeterministic in one respect only: a call may     *)
(* raise.  "Exception" stands for any subclass of Exception raised by a    *)
(* library call or a print, "BaseException" for one that `except           *)
(* Exception` does not catch (KeyboardInterrupt, SystemExit).              *)
(***************************************************************************)
EXTENDS Integers, Sequences, FiniteSets, TLC

VARIABLES
    pc,             \* position in the script
    demo,           \* which demonstration is executing: "none", "bug", "fix"
    out,            \* console output, as a sequence of event tags
    exitCode,       \* -1 while the process runs, then the process exit code
    handled,        \* TRUE once main's except block has caught an exception
    nextUuid,       \* uuid4(): the next fresh identifier
    dbs,            \* one in-memory database per engine, indexed by engine
    sessions,       \* every Session object created so far
    engine,         \* local `engine` of the running demonstration
    setup,          \* locals of setup_test_data
    ids,            \* (user_id, app_id, memory_ids) returned by setup_test_data
    session,        \* local `session` of the running demonstration (index)
    memories,       \* local `memories`: the instances returned by query.all()
    i,              \* loop index of the serialization loop (0-based, done so far)
    attempts,       \* per demonstration, the attempts made so far, in order:
                    \* the memory serialized and what the attempt raised
    failed,         \* local `failed` of reproduce_bug_without_fix
    success_count,  \* local `success_count` of demonstrate_fix_with_eager_loading
    bug_reproduced, \* local of main: "unset", "True" or "False"
    fix_works       \* local of main: "unset", "True" or "False"

vars == <<pc, demo, out, exitCode, handled, nextUuid, dbs, sessions, engine,
          setup, ids, session, memories, i, attempts, failed, success_count,
          bug_reproduced, fix_works>>

(***************************************************************************)
(* Program constants                                                       *)
(***************************************************************************)
NumCategories == 2
NumMemories == 3
CategorizedBelow == 2

Kinds == {"Exception", "BaseException"}

(***************************************************************************)
(* Databases, sessions, rows                                               *)
(***************************************************************************)
EmptyDB ==
    [users |-> {}, apps |-> {}, categories |-> {}, memories |-> {},
     memory_categories |-> {}]

DBUnion(a, b) ==
    [users |-> a.users \cup b.users,
     apps |-> a.apps \cup b.apps,
     categories |-> a.categories \cup b.categories,
     memories |-> a.memories \cup b.memories,
     memory_categories |-> a.memory_categories \cup b.memory_categories]

\* Variant: every engine is bound to one shared database.
CreateTestDatabase_Shared(d) == IF d = <<>> THEN Append(d, EmptyDB) ELSE d

\* create_test_database: a new engine on "sqlite:///:memory:" owns a new,
\* empty database with the schema created; the engine is its index in dbs.
CreateTestDatabase(d) == Append(d, EmptyDB)

\* SessionLocal(): a new Session bound to engine e, nothing pending.
NewSession(e) == [engine |-> e, open |-> TRUE, new |-> EmptyDB, flushed |-> EmptyDB]

\* session.add(obj): obj becomes pending in the session.
SessionAdd(s, tbl, row) ==
    [s EXCEPT !.new = [@ EXCEPT ![tbl] = @ \cup {row}]]

\* session.flush(): pending rows are written inside the open transaction.
SessionFlush(s) ==
    [s EXCEPT !.flushed = DBUnion(@, s.new), !.new = EmptyDB]

\* session.close(): the transaction is rolled back, all objects are expunged.
SessionClose(s) ==
    [s EXCEPT !.open = FALSE, !.new = EmptyDB, !.flushed = EmptyDB]

\* Variant: the setup session is not closed on leaving the block.
WithExit_Leak(s) == s

\* lines 99-101 and 175-177: leaving `with SessionLocal() as session:`,
\* normally or by an exception, closes the session.
WithExit(s) == SessionClose(s)

OpenSessions == {k \in 1..Len(sessions) : sessions[k].open}

EmptySetup == [user |-> 0, app |-> 0, categories |-> <<>>, memories |-> <<>>]
NoIds == [user_id |-> 0, app_id |-> 0, memory_ids |-> <<>>]

Init ==
    /\ pc = "main_header"
    /\ demo = "none"
    /\ out = <<>>
    /\ exitCode = -1
    /\ handled = FALSE
    /\ nextUuid = 1
    /\ dbs = <<>>
    /\ sessions = <<>>
    /\ engine = 0
    /\ setup = EmptySetup
    /\ ids = NoIds
    /\ session = 0
    /\ memories = <<>>
    /\ i = 0
    /\ attempts = [d \in {"bug", "fix"} |-> <<>>]
    /\ failed = FALSE
    /\ success_count = 0
    /\ bug_reproduced = "unset"
    /\ fix_works = "unset"

PyBool(b) == IF b THEN "True" ELSE "False"

(***************************************************************************)
(* Exceptions                                                              *)
(***************************************************************************)
SetupPcs ==
    {"setup_user", "setup_flush1", "setup_app", "setup_flush2", "setup_cat",
     "setup_flush3", "setup_mem", "setup_commit", "setup_return"}

\* Positions inside `with SessionLocal() as session:` (lines 99-101, 175-177).
WithPcs == SetupPcs \cup {"bug_created", "fix_created"}

\* Positions whose exceptions of class Exception are decided by the
\* serialization actions themselves (the try blocks at 131-153 and 210-230).
LoopPcs == {"bug_loop", "fix_loop"}

\* Where an exception of the given kind can be raised by the running step.
RaisePcs(kind) ==
    IF kind = "Exception"
    THEN {"main_header", "main_part1", "main_part2", "main_diff",
          "main_summary", "bug_create_db", "bug_open_setup", "bug_created",
          "bug_open_session", "bug_query", "bug_close",
          "fix_create_db", "fix_open_setup", "fix_created",
          "fix_open_session", "fix_query", "fix_close"}
         \cup SetupPcs
    ELSE {"main_header", "main_part1", "main_part2", "main_diff",
          "main_summary", "bug_create_db", "bug_open_setup", "bug_created",
          "bug_open_session", "bug_query", "bug_close",
          "fix_create_db", "fix_open_setup", "fix_created",
          "fix_open_session", "fix_query", "fix_close"}
         \cup SetupPcs \cup LoopPcs

\* Variant: the handler covers main's own statements only, not what is
\* raised inside the functions it calls.
MainCatches_OwnFrame(kind, at) ==
    kind = "Exception" /\ at \in {"main_part1", "main_part2", "main_diff", "main_summary"}

\* main, lines 301 and 339: the try block starts after the banner and its
\* handler catches Exception only.
MainCatches(kind, at) == kind = "Exception" /\ at # "main_header"

\* An exception leaves the running function: the with block, if the
\* exception crosses one, closes its session (Session.__exit__), then the
\* exception reaches main's handler or escapes the script.
Raise(kind) ==
    /\ pc \in RaisePcs(kind)
    /\ sessions' = IF pc \in WithPcs
                   THEN [sessions EXCEPT ![session] = WithExit(@)]
                   ELSE sessions
    /\ pc' = IF MainCatches(kind, pc) THEN "main_except" ELSE "uncaught"
    /\ UNCHANGED <<demo, out, exitCode, handled, nextUuid, dbs, engine, setup,
                   ids, session, memories, i, attempts, failed, success_count,
                   bug_reproduced, fix_works>>

(***************************************************************************)
(* main                                                                    *)
(***************************************************************************)
\* main, lines 296-299: the banner is printed before the try block.
MainHeader ==
    /\ pc = "main_header"
    /\ pc' = "main_part1"
    /\ out' = Append(out, "header")
    /\ UNCHANGED <<demo, exitCode, handled, nextUuid, dbs, sessions, engine,
                   setup, ids, session, memories, i, attempts, failed,
                   success_count, bug_reproduced, fix_works>>

\* main, lines 303-304: call reproduce_bug_without_fix().
MainPart1 ==
    /\ pc = "main_part1"
    /\ pc' = "bug_create_db"
    /\ demo' = "bug"
    /\ out' = Append(out, "part1")
    /\ UNCHANGED <<exitCode, handled, nextUuid, dbs, sessions, engine, setup,
                   ids, session, memories, i, attempts, failed, success_count,
                   bug_reproduced, fix_works>>

(***************************************************************************)
(* setup_test_data                                                         *)
(***************************************************************************)
\* lines 37-42
SetupUser ==
    /\ pc = "setup_user"
    /\ LET user == [id |-> nextUuid, user_id |-> "test_user_repro"]
       IN /\ setup' = [EmptySetup EXCEPT !.user = user.id]
          /\ sessions' = [sessions EXCEPT ![session] = SessionAdd(@, "users", user)]
    /\ nextUuid' = nextUuid + 1
    /\ pc' = "setup_flush1"
    /\ UNCHANGED <<demo, out, exitCode, handled, dbs, engine, ids, session,
                   memories, i, attempts, failed, success_count,
                   bug_reproduced, fix_works>>

AfterFlush(at) ==
    CASE at = "setup_flush1" -> "setup_app"
      [] at = "setup_flush2" -> "setup_cat"
      [] at = "setup_flush3" -> "setup_mem"

\* lines 43, 52, 63
SetupFlush ==
    /\ pc \in {"setup_flush1", "setup_flush2", "setup_flush3"}
    /\ sessions' = [sessions EXCEPT ![session] = SessionFlush(@)]
    /\ pc' = AfterFlush(pc)
    /\ UNCHANGED <<demo, out, exitCode, handled, nextUuid, dbs, engine, setup,
                   ids, session, memories, i, attempts, failed, success_count,
                   bug_reproduced, fix_works>>

\* lines 46-51
SetupApp ==
    /\ pc = "setup_app"
    /\ LET app == [id |-> nextUuid, name |-> "Test App for Bug Reproduction",
                   owner_id |-> setup.user]
       IN /\ setup' = [setup EXCEPT !.app = app.id]
          /\ sessions' = [sessions EXCEPT ![session] = SessionAdd(@, "apps", app)]
    /\ nextUuid' = nextUuid + 1
    /\ pc' = "setup_flush2"
    /\ UNCHANGED <<demo, out, exitCode, handled, dbs, engine, ids, session,
                   memories, i, attempts, failed, success_count,
                   bug_reproduced, fix_works>>

\* lines 56-62: one iteration of `for i in range(2)`.
SetupCategory ==
    /\ pc = "setup_cat"
    /\ LET k == Len(setup.categories)
           category == [id |-> nextUuid, name |-> k + 1]
       IN /\ setup' = [setup EXCEPT !.categories = Append(@, category.id)]
          /\ sessions' = [sessions EXCEPT
                            ![session] = SessionAdd(@, "categories", category)]
          /\ pc' = IF k + 1 < NumCategories THEN "setup_cat" ELSE "setup_flush3"
    /\ nextUuid' = nextUuid + 1
    /\ UNCHANGED <<demo, out, exitCode, handled, dbs, engine, ids, session,
                   memories, i, attempts, failed, success_count,
                   bug_reproduced, fix_works>>

\* Variant: categories[0] is appended instead of categories[i].
MemoryCategories_First(k, cats) ==
    IF k < CategorizedBelow THEN {cats[1]} ELSE {}

\* lines 78-79: the categories appended to the memory with loop index k.
MemoryCategories(k, cats) ==
    IF k < CategorizedBelow THEN {cats[k + 1]} ELSE {}

\* lines 67-82: one iteration of `for i in range(3)`.
SetupMemory ==
    /\ pc = "setup_mem"
    /\ LET k == Len(setup.memories)
           memory == [id |-> nextUuid, index |-> k, user_id |-> setup.user,
                      app_id |-> setup.app, state |-> "active"]
           links == {[memory_id |-> memory.id, category_id |-> c] :
                        c \in MemoryCategories(k, setup.categories)}
       IN /\ setup' = [setup EXCEPT !.memories = Append(@, memory.id)]
          /\ sessions' = [sessions EXCEPT
                            ![session] =
                                [SessionAdd(@, "memories", memory) EXCEPT
                                    !.new.memory_categories = @ \cup links]]
          /\ pc' = IF k + 1 < NumMemories THEN "setup_mem" ELSE "setup_commit"
    /\ nextUuid' = nextUuid + 1
    /\ UNCHANGED <<demo, out, exitCode, handled, dbs, engine, ids, session,
                   memories, i, attempts, failed, success_count,
                   bug_reproduced, fix_works>>

\* line 84: session.commit() flushes what is pending and makes the
\* transaction's rows durable in the engine's database.
SetupCommit ==
    /\ pc = "setup_commit"
    /\ LET s == SessionFlush(sessions[session])
       IN /\ dbs' = [dbs EXCEPT ![s.engine] = DBUnion(@, s.flushed)]
          /\ sessions' = [sessions EXCEPT ![session] = [s EXCEPT !.flushed = EmptyDB]]
    /\ pc' = "setup_return"
    /\ UNCHANGED <<demo, out, exitCode, handled, nextUuid, engine, setup, ids,
                   session, memories, i, attempts, failed, success_count,
                   bug_reproduced, fix_works>>

\* line 85
SetupReturn ==
    /\ pc = "setup_return"
    /\ ids' = [user_id |-> setup.user, app_id |-> setup.app,
               memory_ids |-> setup.memories]
    /\ pc' = IF demo = "bug" THEN "bug_created" ELSE "fix_created"
    /\ UNCHANGED <<demo, out, exitCode, handled, nextUuid, dbs, sessions,
                   engine, setup, session, memories, i, attempts, failed,
                   success_count, bug_reproduced, fix_works>>

(***************************************************************************)
(* reproduce_bug_without_fix                                               *)
(***************************************************************************)
\* lines 92-96
BugCreateDb ==
    /\ pc = "bug_create_db"
    /\ out' = Append(out, "bug_banner")
    /\ dbs' = CreateTestDatabase(dbs)
    /\ engine' = Len(dbs')
    /\ pc' = "bug_open_setup"
    /\ UNCHANGED <<demo, exitCode, handled, nextUuid, sessions, setup, ids,
                   session, memories, i, attempts, failed, success_count,
                   bug_reproduced, fix_works>>

\* line 99: `with SessionLocal() as session:` entered, setup_test_data called.
BugOpenSetup ==
    /\ pc = "bug_open_setup"
    /\ sessions' = Append(sessions, NewSession(engine))
    /\ session' = Len(sessions')
    /\ pc' = "setup_user"
    /\ UNCHANGED <<demo, out, exitCode, handled, nextUuid, dbs, engine, setup,
                   ids, memories, i, attempts, failed, success_count,
                   bug_reproduced, fix_works>>

\* line 101 and the end of the with block: the setup session is closed.
BugWithExit ==
    /\ pc = "bug_created"
    /\ out' = Append(out, "bug_created")
    /\ sessions' = [sessions EXCEPT ![session] = WithExit(@)]
    /\ pc' = "bug_open_session"
    /\ UNCHANGED <<demo, exitCode, handled, nextUuid, dbs, engine, setup, ids,
                   session, memories, i, attempts, failed, success_count,
                   bug_reproduced, fix_works>>

\* lines 104-105
BugOpenSession ==
    /\ pc = "bug_open_session"
    /\ sessions' = Append(sessions, NewSession(engine))
    /\ session' = Len(sessions')
    /\ pc' = "bug_query"
    /\ UNCHANGED <<demo, out, exitCode, handled, nextUuid, dbs, engine, setup,
                   ids, memories, i, attempts, failed, success_count,
                   bug_reproduced, fix_works>>

\* The rows a session's queries see: the committed rows of its engine's
\* database and the rows of its own open transaction.
Visible(s) == DBUnion(dbs[s.engine], s.flushed)

AppName(db, app_id) ==
    IF \E a \in db.apps : a.id = app_id
    THEN (CHOOSE a \in db.apps : a.id = app_id).name
    ELSE "None"

CategoryNames(db, memory_id) ==
    {c.name : c \in {c \in db.categories :
                        \E l \in db.memory_categories :
                            l.memory_id = memory_id /\ l.category_id = c.id}}

\* A Memory instance as the query materialises it: its columns, and the
\* relationships named in the query's options (joinedload) already loaded.
LoadInstance(db, m, options) ==
    [id |-> m.id, index |-> m.index, user_id |-> m.user_id,
     app_id |-> m.app_id, state |-> m.state, loaded |-> options,
     app_name |-> IF "app" \in options THEN AppName(db, m.app_id) ELSE "unloaded",
     categories |-> IF "categories" \in options
                    THEN CategoryNames(db, m.id) ELSE {}]

RECURSIVE InInsertOrder(_)
InInsertOrder(rows) ==
    IF rows = {} THEN <<>>
    ELSE LET first == CHOOSE r \in rows : \A q \in rows : r.id <= q.id
         IN <<first>> \o InInsertOrder(rows \ {first})

\* lines 108-118 and 183-199: filter on user and state, outer joins to app
\* and categories (which drop no memory and, the result being Memory
\* entities, add none), then .all().
Query(db, user_id, options) ==
    LET rows == {m \in db.memories : m.user_id = user_id /\ m.state = "active"}
        ordered == InInsertOrder(rows)
    IN [k \in 1..Len(ordered) |-> LoadInstance(db, ordered[k], options)]

\* Variant: the bug demonstration's query also carries the joinedload options.
BugQueryOptions_Joined == {"app", "categories"}

\* lines 108-115: no query.options(...) in the bug demonstration.
BugQueryOptions == {}

\* Variant: joinedload(Memory.categories) is missing.
FixQueryOptions_AppOnly == {"app"}

\* lines 193-196
FixQueryOptions == {"app", "categories"}

\* Reading a relationship attribute of an instance: served from the
\* instance when loaded, lazily loaded through its session when the session
\* is open, an error when the instance is detached.
RelationshipAccess(inst, rel, attached) ==
    IF rel \in inst.loaded \/ attached THEN "ok" ELSE "DetachedInstanceError"

AppOf(inst, db) ==
    IF "app" \in inst.loaded THEN inst.app_name ELSE AppName(db, inst.app_id)

\* lines 136-145: the arguments are evaluated in order, then MemoryResponse
\* validates them (v is the validation's outcome).
BugOutcome(inst, attached, db, v) ==
    IF RelationshipAccess(inst, "app", attached) # "ok"
    THEN RelationshipAccess(inst, "app", attached)
    ELSE IF AppOf(inst, db) = "None" THEN "AttributeError"
    ELSE IF RelationshipAccess(inst, "categories", attached) # "ok"
    THEN RelationshipAccess(inst, "categories", attached)
    ELSE v

\* lines 214-223: as above with `memory.app.name if memory.app else None`.
FixOutcome(inst, attached, db, v) ==
    IF RelationshipAccess(inst, "app", attached) # "ok"
    THEN RelationshipAccess(inst, "app", attached)
    ELSE IF RelationshipAccess(inst, "categories", attached) # "ok"
    THEN RelationshipAccess(inst, "categories", attached)
    ELSE v

Validations == {"ok", "ValidationError"}

\* lines 108-119
BugQuery ==
    /\ pc = "bug_query"
    /\ memories' = Query(Visible(sessions[session]), ids.user_id, BugQueryOptions)
    /\ out' = Append(out, "bug_found")
    /\ pc' = "bug_close"
    /\ UNCHANGED <<demo, exitCode, handled, nextUuid, dbs, sessions, engine,
                   setup, ids, session, i, attempts, failed, success_count,
                   bug_reproduced, fix_works>>

\* Variant: session.close() is missing.
BugCloseSession_KeepOpen ==
    /\ pc = "bug_close"
    /\ out' = Append(out, "bug_closed")
    /\ failed' = FALSE
    /\ i' = 0
    /\ pc' = "bug_loop"
    /\ UNCHANGED <<demo, exitCode, handled, nextUuid, dbs, sessions, engine,
                   setup, ids, session, memories, attempts, success_count,
                   bug_reproduced, fix_works>>

\* lines 122-129
BugCloseSession ==
    /\ pc = "bug_close"
    /\ sessions' = [sessions EXCEPT ![session] = SessionClose(@)]
    /\ out' = Append(out, "bug_closed")
    /\ failed' = FALSE
    /\ i' = 0
    /\ pc' = "bug_loop"
    /\ UNCHANGED <<demo, exitCode, handled, nextUuid, dbs, engine, setup, ids,
                   session, memories, attempts, success_count, bug_reproduced,
                   fix_works>>

\* lines 149-150
BugFailed(was, outcome) == was \/ outcome # "ok"

\* Variant: the handler leaves the loop (break) after a failure.
BugNextIndex_Break(k, outcome) == IF outcome = "ok" THEN k + 1 ELSE Len(memories)

\* line 130: the loop goes on to the next memory after either outcome.
BugNextIndex(k, outcome) == k + 1

\* lines 130-153: one iteration of the loop.
BugSerialize(v) ==
    /\ pc = "bug_loop"
    /\ i < Len(memories)
    /\ LET outcome == BugOutcome(memories[i + 1], sessions[session].open,
                                 Visible(sessions[session]), v)
       IN /\ attempts' = [attempts EXCEPT
                            !.bug = Append(@, [memory |-> memories[i + 1].id,
                                               outcome |-> outcome])]
          /\ failed' = BugFailed(failed, outcome)
          /\ out' = out \o <<"bug_attempt",
                             IF outcome = "ok" THEN "bug_success" ELSE "bug_failed">>
          /\ i' = BugNextIndex(i, outcome)
    /\ UNCHANGED <<pc, demo, exitCode, handled, nextUuid, dbs, sessions,
                   engine, setup, ids, session, memories, success_count,
                   bug_reproduced, fix_works>>

\* Variant: main goes from the bug demonstration straight to the diff.
BugReturn_SkipFix ==
    /\ pc = "bug_loop"
    /\ i >= Len(memories)
    /\ out' = Append(out, IF failed THEN "bug_reproduced" ELSE "bug_not_reproduced")
    /\ bug_reproduced' = PyBool(failed)
    /\ pc' = "main_diff"
    /\ UNCHANGED <<demo, exitCode, handled, nextUuid, dbs, sessions, engine,
                   setup, ids, session, memories, i, attempts, failed,
                   success_count, fix_works>>

\* lines 155-160
BugReturn ==
    /\ pc = "bug_loop"
    /\ i >= Len(memories)
    /\ out' = Append(out, IF failed THEN "bug_reproduced" ELSE "bug_not_reproduced")
    /\ bug_reproduced' = PyBool(failed)
    /\ pc' = "main_part2"
    /\ UNCHANGED <<demo, exitCode, handled, nextUuid, dbs, sessions, engine,
                   setup, ids, session, memories, i, attempts, failed,
                   success_count, fix_works>>

(***************************************************************************)
(* demonstrate_fix_with_eager_loading                                      *)
(***************************************************************************)
\* main, lines 307-308: call demonstrate_fix_with_eager_loading().
MainPart2 ==
    /\ pc = "main_part2"
    /\ pc' = "fix_create_db"
    /\ demo' = "fix"
    /\ out' = Append(out, "part2")
    /\ UNCHANGED <<exitCode, handled, nextUuid, dbs, sessions, engine, setup,
                   ids, session, memories, i, attempts, failed, success_count,
                   bug_reproduced, fix_works>>

\* lines 166-172
FixCreateDb ==
    /\ pc = "fix_create_db"
    /\ out' = Append(out, "fix_banner")
    /\ dbs' = CreateTestDatabase(dbs)
    /\ engine' = Len(dbs')
    /\ pc' = "fix_open_setup"
    /\ UNCHANGED <<demo, exitCode, handled, nextUuid, sessions, setup, ids,
                   session, memories, i, attempts, failed, success_count,
                   bug_reproduced, fix_works>>

\* line 175
FixOpenSetup ==
    /\ pc = "fix_open_setup"
    /\ sessions' = Append(sessions, NewSession(engine))
    /\ session' = Len(sessions')
    /\ pc' = "setup_user"
    /\ UNCHANGED <<demo, out, exitCode, handled, nextUuid, dbs, engine, setup,
                   ids, memories, i, attempts, failed, success_count,
                   bug_reproduced, fix_works>>

\* line 177 and the end of the with block
FixWithExit ==
    /\ pc = "fix_created"
    /\ out' = Append(out, "fix_created")
    /\ sessions' = [sessions EXCEPT ![session] = WithExit(@)]
    /\ pc' = "fix_open_session"
    /\ UNCHANGED <<demo, exitCode, handled, nextUuid, dbs, engine, setup, ids,
                   session, memories, i, attempts, failed, success_count,
                   bug_reproduced, fix_works>>

\* lines 179-180
FixOpenSession ==
    /\ pc = "fix_open_session"
    /\ sessions' = Append(sessions, NewSession(engine))
    /\ session' = Len(sessions')
    /\ pc' = "fix_query"
    /\ UNCHANGED <<demo, out, exitCode, handled, nextUuid, dbs, engine, setup,
                   ids, memories, i, attempts, failed, success_count,
                   bug_reproduced, fix_works>>

\* lines 183-200
FixQuery ==
    /\ pc = "fix_query"
    /\ memories' = Query(Visible(sessions[session]), ids.user_id, FixQueryOptions)
    /\ out' = Append(out, "fix_found")
    /\ pc' = "fix_close"
    /\ UNCHANGED <<demo, exitCode, handled, nextUuid, dbs, sessions, engine,
                   setup, ids, session, i, attempts, failed, success_count,
                   bug_reproduced, fix_works>>

\* lines 202-208
FixCloseSession ==
    /\ pc = "fix_close"
    /\ sessions' = [sessions EXCEPT ![session] = SessionClose(@)]
    /\ out' = Append(out, "fix_closed")
    /\ success_count' = 0
    /\ i' = 0
    /\ pc' = "fix_loop"
    /\ UNCHANGED <<demo, exitCode, handled, nextUuid, dbs, engine, setup, ids,
                   session, memories, attempts, failed, bug_reproduced,
                   fix_works>>

\* line 225, reached only when MemoryResponse(...) returned
FixSuccessCount(count, outcome) == IF outcome = "ok" THEN count + 1 ELSE count

\* lines 209-230: one iteration of the loop.
FixSerialize(v) ==
    /\ pc = "fix_loop"
    /\ i < Len(memories)
    /\ LET outcome == FixOutcome(memories[i + 1], sessions[session].open,
                                 Visible(sessions[session]), v)
       IN /\ attempts' = [attempts EXCEPT
                            !.fix = Append(@, [memory |-> memories[i + 1].id,
                                               outcome |-> outcome])]
          /\ success_count' = FixSuccessCount(success_count, outcome)
          /\ out' = out \o <<"fix_attempt",
                             IF outcome = "ok" THEN "fix_success" ELSE "fix_failed">>
    /\ i' = i + 1
    /\ UNCHANGED <<pc, demo, exitCode, handled, nextUuid, dbs, sessions,
                   engine, setup, ids, session, memories, failed,
                   bug_reproduced, fix_works>>

\* line 232
FixResult(count, n) == count = n

\* lines 232-237
FixReturn ==
    /\ pc = "fix_loop"
    /\ i >= Len(memories)
    /\ out' = Append(out, IF FixResult(success_count, Len(memories))
                          THEN "fix_confirmed" ELSE "fix_partial")
    /\ fix_works' = PyBool(FixResult(success_count, Len(memories)))
    /\ pc' = "main_diff"
    /\ UNCHANGED <<demo, exitCode, handled, nextUuid, dbs, sessions, engine,
                   setup, ids, session, memories, i, attempts, failed,
                   success_count, bug_reproduced>>

(***************************************************************************)
(* main, continued                                                         *)
(***************************************************************************)
\* line 311: show_the_actual_code_diff() (lines 239-293), prints only.
MainDiff ==
    /\ pc = "main_diff"
    /\ out' = Append(out, "diff")
    /\ demo' = "none"
    /\ pc' = "main_summary"
    /\ UNCHANGED <<exitCode, handled, nextUuid, dbs, sessions, engine, setup,
                   ids, session, memories, i, attempts, failed, success_count,
                   bug_reproduced, fix_works>>

\* lines 313-337
MainSummary ==
    /\ pc = "main_summary"
    /\ out' = out \o <<"summary">>
                  \o <<IF bug_reproduced = "True" THEN "summary_bug_reproduced"
                       ELSE "summary_bug_not_reproduced">>
                  \o (IF fix_works = "True" THEN <<"summary_fix_validated">>
                      ELSE <<>>)
    /\ pc' = "main_return"
    /\ UNCHANGED <<demo, exitCode, handled, nextUuid, dbs, sessions, engine,
                   setup, ids, session, memories, i, attempts, failed,
                   success_count, bug_reproduced, fix_works>>

\* Variant: the handler prints and re-raises.
MainExcept_Reraise ==
    /\ pc = "main_except"
    /\ out' = out \o <<"unexpected_error", "traceback">>
    /\ handled' = TRUE
    /\ pc' = "uncaught"
    /\ UNCHANGED <<demo, exitCode, nextUuid, dbs, sessions, engine, setup,
                   ids, session, memories, i, attempts, failed, success_count,
                   bug_reproduced, fix_works>>

\* lines 339-342: the handler prints the type, the message and the trace.
MainExcept ==
    /\ pc = "main_except"
    /\ out' = out \o <<"unexpected_error", "traceback">>
    /\ handled' = TRUE
    /\ pc' = "main_return"
    /\ UNCHANGED <<demo, exitCode, nextUuid, dbs, sessions, engine, setup,
                   ids, session, memories, i, attempts, failed, success_count,
                   bug_reproduced, fix_works>>

\* lines 344-345: main() returned, the interpreter exits with status 0.
MainReturn ==
    /\ pc = "main_return"
    /\ exitCode' = 0
    /\ pc' = "exited"
    /\ UNCHANGED <<demo, out, handled, nextUuid, dbs, sessions, engine, setup,
                   ids, session, memories, i, attempts, failed, success_count,
                   bug_reproduced, fix_works>>

\* lines 344-345: an exception left main(), the interpreter prints the
\* trace and exits with status 1.
Uncaught ==
    /\ pc = "uncaught"
    /\ exitCode' = 1
    /\ out' = Append(out, "uncaught_traceback")
    /\ pc' = "exited"
    /\ UNCHANGED <<demo, handled, nextUuid, dbs, sessions, engine, setup,
                   ids, session, memories, i, attempts, failed, success_count,
                   bug_reproduced, fix_works>>

Next ==
    \/ MainHeader
    \/ MainPart1
    \/ SetupUser
    \/ SetupFlush
    \/ SetupApp
    \/ SetupCategory
    \/ SetupMemory
    \/ SetupCommit
    \/ SetupReturn
    \/ BugCreateDb
    \/ BugOpenSetup
    \/ BugWithExit
    \/ BugOpenSession
    \/ BugQuery
    \/ BugCloseSession
    \/ \E v \in Validations : BugSerialize(v)
    \/ BugReturn
    \/ MainPart2
    \/ FixCreateDb
    \/ FixOpenSetup
    \/ FixWithExit
    \/ FixOpenSession
    \/ FixQuery
    \/ FixCloseSession
    \/ \E v \in Validations : FixSerialize(v)
    \/ FixReturn
    \/ MainDiff
    \/ MainSummary
    \/ MainExcept
    \/ MainReturn
    \/ Uncaught
    \/ \E kind \in Kinds : Raise(kind)

Spec == Init /\ [][Next]_vars

(***************************************************************************)
(* The serialization loop of reproduce_bug_without_fix on arbitrary query  *)
(* results: the loop starts with the session closed and a list of at most  *)
(* MaxLoopLen instances, each with any of its relationships loaded or not  *)
(* and with or without an app.                                             *)
(***************************************************************************)
MaxLoopLen == 3

Shapes ==
    {[loaded |-> l, app_name |-> a] :
        l \in SUBSET {"app", "categories"}, a \in {"Test App", "None"}}

LoopInstance(k, shape) ==
    [id |-> k, index |-> k - 1, user_id |-> 0, app_id |-> 0,
     state |-> "active", loaded |-> shape.loaded,
     app_name |-> IF "app" \in shape.loaded THEN shape.app_name ELSE "unloaded",
     categories |-> {}]

LoopInputs ==
    UNION {{[k \in 1..n |-> LoopInstance(k, f[k])] : f \in [1..n -> Shapes]} :
              n \in 0..MaxLoopLen}

InitLoop ==
    /\ pc = "bug_loop"
    /\ demo = "bug"
    /\ out = <<>>
    /\ exitCode = -1
    /\ handled = FALSE
    /\ nextUuid = 1
    /\ dbs = <<EmptyDB>>
    /\ sessions = <<SessionClose(NewSession(1)), SessionClose(NewSession(1))>>
    /\ engine = 1
    /\ setup = EmptySetup
    /\ ids = NoIds
    /\ session = 2
    /\ memories \in LoopInputs
    /\ i = 0
    /\ attempts = [d \in {"bug", "fix"} |-> <<>>]
    /\ failed = FALSE
    /\ success_count = 0
    /\ bug_reproduced = "unset"
    /\ fix_works = "unset"

NextLoop ==
    \/ \E v \in Validations : BugSerialize(v)
    \/ BugReturn

SpecLoop == InitLoop /\ [][NextLoop]_vars

(***************************************************************************)
(* Properties                                                              *)
(***************************************************************************)
Has(tag) == \E k \in 1..Len(out) : out[k] = tag
First(tag) == CHOOSE k \in 1..Len(out) : out[k] = tag /\ \A j \in 1..(k - 1) : out[j] # tag
Raised(d) == {k \in 1..Len(attempts[d]) : attempts[d][k].outcome # "ok"}

\* C1: in reproduce_bug_without_fix every serialization attempt made after
\* the session was closed raises the detached-instance error of the
\* relationship read, the error stays inside the loop (the loop goes on,
\* main's handler is not entered), and when the function returns, every
\* memory of the query has failed so and the function has returned True.
C1_BugReproduced ==
    /\ \A k \in 1..Len(attempts.bug) :
           attempts.bug[k].outcome = "DetachedInstanceError"
    /\ pc = "bug_loop" => /\ Len(attempts.bug) = i
                          /\ ~handled
                          /\ failed = (i > 0)
    /\ pc = "main_part2" => /\ Len(attempts.bug) = Len(memories)
                            /\ Len(memories) > 0
                            /\ ~handled
                            /\ bug_reproduced = "True"
    /\ bug_reproduced \in {"unset", "True"}

C1_Witness ==
    /\ pc = "main_part2"
    /\ Len(attempts.bug) = NumMemories
    /\ \A k \in 1..Len(attempts.bug) :
           attempts.bug[k].outcome = "DetachedInstanceError"
    /\ bug_reproduced = "True"

\* C2: in demonstrate_fix_with_eager_loading no relationship read after
\* session.close() raises; when the function returns it has attempted every
\* memory, it returns True exactly when success_count equals len(memories),
\* that is when no attempt raised, and False exactly when at least one did.
C2_FixWorks ==
    /\ \A k \in 1..Len(attempts.fix) :
           attempts.fix[k].outcome # "DetachedInstanceError"
    /\ pc = "fix_loop" =>
           success_count = Len(attempts.fix) - Cardinality(Raised("fix"))
    /\ fix_works # "unset" =>
           /\ Len(attempts.fix) = Len(memories)
           /\ (fix_works = "True") = (success_count = Len(memories))
           /\ (fix_works = "True") = (Raised("fix") = {})
           /\ (fix_works = "False") = (Raised("fix") # {})

C2_Witness ==
    /\ pc = "main_diff"
    /\ fix_works = "True"
    /\ success_count = NumMemories
    /\ Len(attempts.fix) = NumMemories

BugTags == {"bug_banner", "bug_created", "bug_found", "bug_closed",
            "bug_attempt", "bug_success", "bug_failed", "bug_reproduced",
            "bug_not_reproduced"}
FixTags == {"fix_banner", "fix_created", "fix_found", "fix_closed",
            "fix_attempt", "fix_success", "fix_failed", "fix_confirmed",
            "fix_partial"}
SummaryTags == {"summary", "summary_bug_reproduced",
                "summary_bug_not_reproduced", "summary_fix_validated"}

\* b is printed only after a has been printed for the first time
Before(a, b) == Has(b) => Has(a) /\ First(a) < First(b)

RaisedInTry == Raise("Exception") /\ pc # "main_header"

\* A serialization attempt of demonstration d raises in this step.
AttemptRaises(d) ==
    /\ Len(attempts'[d]) = Len(attempts[d]) + 1
    /\ attempts'[d][Len(attempts'[d])].outcome # "ok"

\* C4 (as claimed): whenever a serialization attempt has raised in the fix
\* demonstration, or has raised something other than the expected
\* relationship error in the bug demonstration, control is in main's
\* handler or past it, and the handler has printed the error and the trace.
C4_AllOthersReachMain ==
    /\ (\/ Raised("fix") # {}
        \/ \E k \in 1..Len(attempts.bug) :
               attempts.bug[k].outcome \notin {"ok", "DetachedInstanceError"})
       => /\ pc \in {"main_except", "main_return", "exited"}
          /\ pc # "main_except" => handled
    /\ handled => Has("unexpected_error") /\ Has("traceback")

\* C4 (amended): an Exception raised inside main's try block outside the two
\* serialization try blocks reaches main's handler, which prints the error
\* and the trace; an Exception raised while serializing a memory, in either
\* demonstration and whatever its type, is caught by the loop's own handler:
\* the loop goes on with the next memory and main's handler is not entered.
C4_OnlyOutsideLoopsReachMain ==
    [][/\ RaisedInTry => pc' = "main_except"
       /\ pc = "main_except" =>
              handled' /\ out' = out \o <<"unexpected_error", "traceback">>
       /\ handled' => Has("unexpected_error")' /\ Has("traceback")'
       /\ \A d \in {"bug", "fix"} :
              AttemptRaises(d) => /\ pc \in LoopPcs /\ pc' = pc
                                  /\ i' = i + 1
                                  /\ ~handled'
      ]_vars

C4_Witness ==
    /\ Raised("fix") # {}
    /\ Raised("bug") # {}
    /\ handled
    /\ Has("diff") /\ ~Has("summary")
    /\ out[Len(out)] = "traceback"

C5_State ==
    /\ pc # "exited" => exitCode = -1
    /\ pc = "exited" =>
           /\ exitCode \in {0, 1}
           /\ (exitCode = 1) = Has("uncaught_traceback")
           /\ (exitCode = 0) = (handled \/ Has("summary"))
    /\ handled => ~Has("summary") /\ ~Has("uncaught_traceback")

\* C5 (as claimed): the process exits with status 0 when main returns and
\* non-zero only when an exception escaped main, and once an Exception has
\* been raised inside a demonstration (the relationship error expected in
\* the bug demonstration apart) the summary is not printed and the script
\* ends through main's handler.
C5_AnyDemoExceptionSkipsSummary ==
    /\ C5_State
    /\ (\/ Raised("fix") # {}
        \/ \E k \in 1..Len(attempts.bug) :
               attempts.bug[k].outcome \notin {"ok", "DetachedInstanceError"})
       => /\ ~Has("summary")
          /\ pc = "exited" => handled

\* C5 (amended): the process exits with status 0 when main returns and with
\* a non-zero status exactly when an exception escaped main; an Exception
\* that leaves either demonstration or the diff printer is caught by main's
\* handler, after which main returns normally (status 0) without printing
\* the summary; an Exception raised by a serialization attempt leaves
\* neither demonstration and sends control neither to main's handler nor
\* out of main.
C5_ExitCode ==
    [][/\ C5_State'
       /\ (Raise("Exception") /\ pc \notin {"main_header"}) => pc' = "main_except"
       /\ pc' = "uncaught" =>
              Raise("BaseException") \/ (Raise("Exception") /\ pc = "main_header")
       /\ \A d \in {"bug", "fix"} :
              AttemptRaises(d) => pc' \in LoopPcs /\ exitCode' = -1
      ]_vars

C5_Witness ==
    /\ pc = "exited"
    /\ exitCode = 0
    /\ handled
    /\ Has("fix_banner")
    /\ ~Has("summary")

\* C6: at every point of a run at most one session is open; the setup
\* session of a demonstration is closed when its query session is opened,
\* and no session is open when the fix demonstration opens its first one.
C6_OneSessionAtATime ==
    /\ Cardinality(OpenSessions) <= 1
    /\ pc \in {"bug_open_session", "fix_open_session", "fix_open_setup"} =>
           OpenSessions = {}
    /\ pc \in {"bug_query", "bug_close", "fix_query", "fix_close"} =>
           OpenSessions = {session}

C6_Witness ==
    /\ pc = "fix_query"
    /\ Len(sessions) = 4
    /\ OpenSessions = {4}

\* C7: in both demonstrations the query is issued on an open session, the
\* session is still open when query.all() has returned, and it is closed
\* before the first serialization attempt: every attempt is made with the
\* query session closed.
C7_CloseBetweenQueryAndSerialize ==
    /\ pc \in {"bug_query", "fix_query"} => sessions[session].open
    /\ pc \in {"bug_close", "fix_close"} =>
           sessions[session].open /\ Len(memories) > 0
    /\ pc \in LoopPcs => ~sessions[session].open
    /\ \A d \in {"bug", "fix"} :
           (demo = d /\ attempts[d] # <<>>) => ~sessions[session].open

C7_Witness ==
    /\ pc = "fix_loop"
    /\ Len(attempts.fix) = 1
    /\ Len(attempts.bug) = NumMemories
    /\ ~sessions[session].open

AfterCommitPcs ==
    {"setup_return", "bug_created", "fix_created", "bug_open_session",
     "fix_open_session", "bug_query", "fix_query", "bug_close", "fix_close"}

\* C9: once setup_test_data has committed, the demonstration's database
\* holds one user, one app owned by that user, two categories and three
\* active memories of that user and that app; the first memory is linked to
\* the first category only, the second to the second only, the third to
\* none; setup_test_data returns the three memory ids, and the query of
\* each demonstration returns exactly these three memories.
C9_Fixture ==
    /\ pc \in AfterCommitPcs =>
           LET db == dbs[engine] IN
           /\ Cardinality(db.users) = 1
           /\ Cardinality(db.apps) = 1
           /\ \A a \in db.apps : \A u \in db.users : a.owner_id = u.id
           /\ Cardinality(db.categories) = 2
           /\ {c.name : c \in db.categories} = {1, 2}
           /\ Cardinality(db.memories) = 3
           /\ {m.index : m \in db.memories} = {0, 1, 2}
           /\ \A m \in db.memories :
                  /\ m.state = "active"
                  /\ \A u \in db.users : m.user_id = u.id
                  /\ \A a \in db.apps : m.app_id = a.id
                  /\ CategoryNames(db, m.id) =
                         (CASE m.index = 0 -> {1} [] m.index = 1 -> {2}
                            [] OTHER -> {})
           /\ Cardinality(db.memory_categories) = 2
    /\ pc \in AfterCommitPcs \ {"setup_return"} =>
           /\ Len(ids.memory_ids) = 3
           /\ {ids.memory_ids[k] : k \in 1..3} = {m.id : m \in dbs[engine].memories}
           /\ \A u \in dbs[engine].users : ids.user_id = u.id
    /\ pc \in {"bug_close", "fix_close"} =>
           /\ Len(memories) = 3
           /\ [k \in 1..3 |-> memories[k].id] = ids.memory_ids

C9_Witness ==
    /\ pc = "fix_close"
    /\ Len(memories) = 3
    /\ Cardinality(dbs[engine].memories) = 3

FixRunningPcs ==
    {"fix_open_setup", "fix_created", "fix_open_session", "fix_query",
     "fix_close", "fix_loop"}

DBDisjoint(a, b) ==
    /\ a.users \cap b.users = {}
    /\ a.apps \cap b.apps = {}
    /\ a.categories \cap b.categories = {}
    /\ a.memories \cap b.memories = {}
    /\ a.memory_categories \cap b.memory_categories = {}

\* C10: the fix demonstration works on a database of its own: its engine
\* differs from the bug demonstration's, its database is empty when its
\* setup starts and never holds a row of the bug demonstration's database,
\* its sessions are bound to its own engine, and its query returns only the
\* memories its own setup inserted, with the same content in every run.
C10_SeparateDatabases ==
    /\ pc = "fix_open_setup" => dbs[engine] = EmptyDB
    /\ (demo = "fix" /\ pc \in FixRunningPcs \cup SetupPcs) =>
           /\ Len(dbs) = 2 /\ engine = 2
           /\ Cardinality(dbs[1].memories) = NumMemories
           /\ DBDisjoint(dbs[1], dbs[2])
           /\ session > 2 => sessions[session].engine = engine
    /\ pc \in {"fix_close", "fix_loop"} =>
           /\ Len(memories) = NumMemories
           /\ [k \in 1..Len(memories) |->
                  <<memories[k].index, memories[k].app_name, memories[k].categories>>]
                  = << <<0, "Test App for Bug Reproduction", {1}>>,
                       <<1, "Test App for Bug Reproduction", {2}>>,
                       <<2, "Test App for Bug Reproduction", {}>> >>
           /\ {memories[k].id : k \in 1..Len(memories)}
                  = {m.id : m \in dbs[engine].memories}
           /\ \A k \in 1..Len(memories) :
                  \A m \in dbs[1].memories : memories[k].id # m.id

C10_Witness ==
    /\ pc = "fix_close"
    /\ Len(dbs) = 2
    /\ Cardinality(dbs[1].memories) = NumMemories
    /\ Cardinality(dbs[2].memories) = NumMemories

\* C8: the loop of reproduce_bug_without_fix attempts the memories of the
\* query result one by one in the order of the list, each exactly once, and
\* goes on after a failure; the function returns True if and only if at
\* least one attempt raised, whatever was raised: False on an empty result,
\* True when a single attempt among several raised.
C8_LoopContract ==
    /\ pc = "bug_loop" =>
           /\ i = Len(attempts.bug)
           /\ i <= Len(memories)
           /\ failed = (Raised("bug") # {})
    /\ \A k \in 1..Len(attempts.bug) :
           k <= Len(memories) /\ attempts.bug[k].memory = memories[k].id
    /\ pc = "main_part2" =>
           /\ Len(attempts.bug) = Len(memories)
           /\ bug_reproduced = PyBool(Raised("bug") # {})
           /\ memories = <<>> => bug_reproduced = "False"

C8_Witness ==
    /\ pc = "main_part2"
    /\ Len(memories) = 3
    /\ Len(attempts.bug) = 3
    /\ Raised("bug") = {1}
    /\ bug_reproduced = "True"

====
